---- MODULE Spec2Model ----
(***************************************************************************)
(* The search-lifecycle hook useSearch (hooks/useSearch.js), the gateway   *)
(* api.searchTools (utils/api.js), the components that call them (App,     *)
(* SearchSection, ToastContainer) and the timers they create, as a state   *)
(* machine.  Times are in milliseconds.  A query is a sequence of          *)
(* one-character strings.                                                   *)
(***************************************************************************)
EXTENDS Integers, Sequences, FiniteSets, TLC

VARIABLES
    now,              \* Date.now()
    loading,          \* useState(false)
    loadingProgress,  \* useState(0)
    loadingStage,     \* useState("")
    error,            \* useState(null)
    tickerRef,        \* useRef(null): 0 is null, i > 0 the interval of subs[i]
    subs,             \* one record per handleSearch call that reached its try block
    settled,          \* how the latest handleSearch promise settled
    posts,            \* number of axios.post calls issued
    query,            \* App: useState("")
    toasts,           \* ToastContainer: useState([])
    removalTimers,    \* ToastContainer: the pending setTimeout(removeToast) calls
    errorTimer,       \* SearchSection: the pending timeouts of the error effect (one at most)
    toastSeq,         \* number of toast ids issued
    gestures,         \* number of user gestures handled
    results,          \* App: useState(null)
    autoCloseTimers,  \* Toast: the pending setTimeout(handleClose) of each mounted toast
    exitTimers        \* Toast: the pending setTimeout(onClose) calls of handleClose

\* the state of App, SearchSection and ToastContainer
uiVars == <<query, toasts, removalTimers, errorTimer, toastSeq, gestures, results,
            autoCloseTimers, exitTimers>>

vars == <<now, loading, loadingProgress, loadingStage, error, tickerRef, subs,
          settled, posts, query, toasts, removalTimers, errorTimer, toastSeq,
          gestures, results, autoCloseTimers, exitTimers>>

----------------------------------------------------------------------------
(* Bounds of the model *)

\* handleSearch calls that pass validation in one behaviour
MaxCalls == 2

\* instants at which Date.now() is observed
TimePoints == <<0, 150, 850, 6500, 28150>>

----------------------------------------------------------------------------
(* Characters and strings *)

UpperCase == <<"A","B","C","D","E","F","G","H","I","J","K","L","M",
               "N","O","P","Q","R","S","T","U","V","W","X","Y","Z">>
LowerCase == <<"a","b","c","d","e","f","g","h","i","j","k","l","m",
               "n","o","p","q","r","s","t","u","v","w","x","y","z">>
Digits == {"0","1","2","3","4","5","6","7","8","9"}

Range(s) == {s[i] : i \in DOMAIN s}

\* the i flag of the patterns
ToLower(c) ==
    IF \E i \in DOMAIN UpperCase : UpperCase[i] = c
    THEN LowerCase[CHOOSE i \in DOMAIN UpperCase : UpperCase[i] = c]
    ELSE c

\* \w
IsWord(c) == c \in Range(UpperCase) \cup Range(LowerCase) \cup Digits \cup {"_"}

\* \s (and the characters String.prototype.trim strips)
IsSpace(c) == c \in {" ", "\t", "\n", "\r"}

first_non_space(q) ==
    IF \E i \in DOMAIN q : ~IsSpace(q[i])
    THEN CHOOSE i \in DOMAIN q : ~IsSpace(q[i]) /\ \A j \in 1..(i-1) : IsSpace(q[j])
    ELSE 0

last_non_space(q) ==
    IF \E i \in DOMAIN q : ~IsSpace(q[i])
    THEN CHOOSE i \in DOMAIN q : ~IsSpace(q[i]) /\ \A j \in (i+1)..Len(q) : IsSpace(q[j])
    ELSE 0

\* String.prototype.trim
trim(q) ==
    IF first_non_space(q) = 0 THEN <<>>
    ELSE SubSeq(q, first_non_space(q), last_non_space(q))

\* the literal lit occurs in q at position i, ignoring case
MatchAt(q, i, lit) ==
    /\ i >= 1
    /\ i + Len(lit) - 1 <= Len(q)
    /\ \A k \in 1..Len(lit) : ToLower(q[i + k - 1]) = lit[k]

\* /lit/i.test(q)
TestLiteral(q, lit) == \E i \in 1..Len(q) : MatchAt(q, i, lit)

\* /a\s+b/i.test(q) with minGap = 1, /a\s*b/i.test(q) with minGap = 0
TestGap(q, a, b, minGap) ==
    \E i \in 1..Len(q) :
        /\ MatchAt(q, i, a)
        /\ \E g \in minGap..Len(q) :
              /\ \A k \in 1..g :
                    i + Len(a) + k - 1 <= Len(q) /\ IsSpace(q[i + Len(a) + k - 1])
              /\ MatchAt(q, i + Len(a) + g, b)

dangerousPatterns == <<
    <<"<","s","c","r","i","p","t">>,
    <<"j","a","v","a","s","c","r","i","p","t",":">>,
    <<"d","a","t","a",":","t","e","x","t","/","h","t","m","l">>,
    <<"v","b","s","c","r","i","p","t",":">>,
    <<"o","n","l","o","a","d","=">>,
    <<"o","n","e","r","r","o","r","=">>,
    <<"<","i","f","r","a","m","e">>,
    <<"<","o","b","j","e","c","t">>,
    <<"<","e","m","b","e","d">>,
    <<"<","l","i","n","k">>,
    <<"<","m","e","t","a">>,
    <<"<","s","t","y","l","e">> >>

\* each entry: <<first literal, second literal, least number of \s between them>>
sqlPatterns == <<
    << <<"u","n","i","o","n">>, <<"s","e","l","e","c","t">>, 1 >>,
    << <<"d","r","o","p">>, <<"t","a","b","l","e">>, 1 >>,
    << <<"d","e","l","e","t","e">>, <<"f","r","o","m">>, 1 >>,
    << <<"i","n","s","e","r","t">>, <<"i","n","t","o">>, 1 >>,
    << <<"u","p","d","a","t","e">>, <<"s","e","t">>, 1 >>,
    << <<";">>, <<"d","r","o","p">>, 0 >>,
    << <<";">>, <<"d","e","l","e","t","e">>, 0 >>,
    << <<";">>, <<"i","n","s","e","r","t">>, 0 >>,
    << <<";">>, <<"u","p","d","a","t","e">>, 0 >>
    >>

\* (query.match(/[^\w\s]/g) || []).length
specialCharCount(q) == Cardinality({i \in DOMAIN q : ~IsWord(q[i]) /\ ~IsSpace(q[i])})

----------------------------------------------------------------------------
(* Messages and error objects *)

MsgEmpty == "Query cannot be empty"
MsgShort == "Query must be at least 2 characters long"
MsgLong == "Query must be less than 200 characters"
MsgDangerous == "Query contains potentially dangerous content"
MsgSql == "Query contains potentially dangerous SQL content"
MsgSpecial == "Query contains too many special characters"

\* the JavaScript value null held in the error state
Null == [type |-> "null"]

validationError(msg) ==
    [type |-> "validation", message |-> msg,
     errors |-> <<[field |-> "query", message |-> msg]>>]

----------------------------------------------------------------------------
(* useSearch.handleSearch: the validation prefix *)

MinQueryLength == 2
MaxQueryLength == 200
TickPeriod == 150
HoldDelay == 700

anyDangerous(q) ==
    \E p \in DOMAIN dangerousPatterns : TestLiteral(q, dangerousPatterns[p])

anySql(q) ==
    \E p \in DOMAIN sqlPatterns :
        TestGap(q, sqlPatterns[p][1], sqlPatterns[p][2], sqlPatterns[p][3])

\* tooManySpecial rejecting a ratio of exactly 0.3 too
tooManySpecial_atLeast(q) == 10 * specialCharCount(q) >= 3 * Len(q)

\* specialCharCount > query.length * 0.3, in tenths
tooManySpecial(q) == 10 * specialCharCount(q) > 3 * Len(q)

\* hookValidation without the check of the raw length
hookValidation_noLengthCap(q) ==
    IF Len(trim(q)) = 0 THEN [pass |-> FALSE, message |-> ""]
    ELSE IF Len(trim(q)) < MinQueryLength THEN [pass |-> FALSE, message |-> MsgShort]
    ELSE IF anyDangerous(q) THEN [pass |-> FALSE, message |-> MsgDangerous]
    ELSE IF anySql(q) THEN [pass |-> FALSE, message |-> MsgSql]
    ELSE IF tooManySpecial(q) THEN [pass |-> FALSE, message |-> MsgSpecial]
    ELSE [pass |-> TRUE, message |-> ""]

\* hookValidation returning on a short query without calling setError
hookValidation_silentShort(q) ==
    IF Len(trim(q)) < MinQueryLength THEN [pass |-> FALSE, message |-> ""]
    ELSE IF Len(q) > MaxQueryLength THEN [pass |-> FALSE, message |-> MsgLong]
    ELSE IF anyDangerous(q) THEN [pass |-> FALSE, message |-> MsgDangerous]
    ELSE IF anySql(q) THEN [pass |-> FALSE, message |-> MsgSql]
    ELSE IF tooManySpecial(q) THEN [pass |-> FALSE, message |-> MsgSpecial]
    ELSE [pass |-> TRUE, message |-> ""]

\* hookValidation testing the patterns before the lengths
hookValidation_patternsFirst(q) ==
    IF Len(trim(q)) = 0 THEN [pass |-> FALSE, message |-> ""]
    ELSE IF anyDangerous(q) THEN [pass |-> FALSE, message |-> MsgDangerous]
    ELSE IF anySql(q) THEN [pass |-> FALSE, message |-> MsgSql]
    ELSE IF Len(trim(q)) < MinQueryLength THEN [pass |-> FALSE, message |-> MsgShort]
    ELSE IF Len(q) > MaxQueryLength THEN [pass |-> FALSE, message |-> MsgLong]
    ELSE IF tooManySpecial(q) THEN [pass |-> FALSE, message |-> MsgSpecial]
    ELSE [pass |-> TRUE, message |-> ""]

\* The outcome of the checks that precede setLoading(true):
\* pass: the call goes on to the try block; message: the argument of setError,
\* "" when the call returns without calling setError.
hookValidation(q) ==
    IF Len(trim(q)) = 0 THEN [pass |-> FALSE, message |-> ""]
    ELSE IF Len(trim(q)) < MinQueryLength THEN [pass |-> FALSE, message |-> MsgShort]
    ELSE IF Len(q) > MaxQueryLength THEN [pass |-> FALSE, message |-> MsgLong]
    ELSE IF anyDangerous(q) THEN [pass |-> FALSE, message |-> MsgDangerous]
    ELSE IF anySql(q) THEN [pass |-> FALSE, message |-> MsgSql]
    ELSE IF tooManySpecial(q) THEN [pass |-> FALSE, message |-> MsgSpecial]
    ELSE [pass |-> TRUE, message |-> ""]

----------------------------------------------------------------------------
(* useSearch.handleSearch: the progress simulation *)

LabelInit == "Initializing..."
LabelDone == "Research complete!"

\* stages whose second stage starts below the end of the first
stages_stepDown == <<
    [t |-> 800,  label |-> "Analyzing query and extracting tools...", min |-> 5,  max |-> 25],
    [t |-> 2500, label |-> "Researching individual tools...",         min |-> 10, max |-> 65],
    [t |-> 4500, label |-> "Evaluating and ranking results...",       min |-> 65, max |-> 85],
    [t |-> 6500, label |-> "Generating recommendations...",           min |-> 85, max |-> 92] >>

stages == <<
    [t |-> 800,  label |-> "Analyzing query and extracting tools...", min |-> 5,  max |-> 25],
    [t |-> 2500, label |-> "Researching individual tools...",         min |-> 25, max |-> 65],
    [t |-> 4500, label |-> "Evaluating and ranking results...",       min |-> 65, max |-> 85],
    [t |-> 6500, label |-> "Generating recommendations...",           min |-> 85, max |-> 92] >>

Min(a, b) == IF a < b THEN a ELSE b
Max(a, b) == IF a > b THEN a ELSE b

RECURSIVE Gcd(_, _)
Gcd(a, b) == IF b = 0 THEN a ELSE Gcd(b, a % b)

\* dynamicCap with a last step that reaches 100
dynamicCap_reaches100(elapsedMs) ==
    IF elapsedMs < 10000 THEN 92
    ELSE IF elapsedMs < 18000 THEN 95
    ELSE IF elapsedMs < 28000 THEN 97
    ELSE 100

dynamicCap(elapsedMs) ==
    IF elapsedMs < 10000 THEN 92
    ELSE IF elapsedMs < 18000 THEN 95
    ELSE IF elapsedMs < 28000 THEN 97
    ELSE 99

\* currIndex choosing the last stage whose threshold has been reached
currIndex_lastReached(elapsed) ==
    IF \E i \in DOMAIN stages : stages[i].t <= elapsed
    THEN CHOOSE i \in DOMAIN stages :
            stages[i].t <= elapsed /\ \A j \in (i+1)..Len(stages) : stages[j].t > elapsed
    ELSE 1

\* the index of curr after the loop over stages
currIndex(elapsed) ==
    IF \E i \in DOMAIN stages : elapsed <= stages[i].t
    THEN CHOOSE i \in DOMAIN stages :
            elapsed <= stages[i].t /\ \A j \in 1..(i-1) : elapsed > stages[j].t
    ELSE Len(stages)

prevT(idx) == IF idx > 1 THEN stages[idx - 1].t ELSE 0

\* Math.floor(lo + (hi - lo) * easeOutCubic(num / den)) for 0 <= num <= den,
\* lo <= hi, computed on the reduced fraction
easedFloor(lo, hi, num, den) ==
    LET g == Gcd(den, num)
        n == num \div g
        d == den \div g
    IN  lo + ((hi - lo) * (d * d * d - (d - n) * (d - n) * (d - n))) \div (d * d * d)

target(elapsed) ==
    LET idx == currIndex(elapsed)
        curr == stages[idx]
        stageSpan == Max(1, curr.t - prevT(idx))
        stageElapsed == Min(Max(elapsed - prevT(idx), 0), stageSpan)
        cap == dynamicCap(elapsed)
        isLastStage == idx = Len(stages)
        stageMax == IF isLastStage THEN cap ELSE Min(curr.max, cap)
    IN  easedFloor(curr.min, stageMax, stageElapsed, stageSpan)

\* published without the comparison with the previous value
published_noGuard(p, tgt) == tgt

\* setLoadingProgress((p) => (target > p ? target : p))
published(p, tgt) == IF tgt > p THEN tgt ELSE p

----------------------------------------------------------------------------
(* api.searchTools *)

\* response.data of a 2xx answer
Body == [type |-> "body", companies |-> <<"tool">>, analysis |-> "text"]

\* the value null returned by handleSearch
NullValue == [type |-> "null"]

\* What axios.post rejects with: hasResponse is error.response being set,
\* detail is error.response.data.detail ("none": absent, "list": an array,
\* "text": a string), message is error.message.
NoDetail == [kind |-> "none", items |-> <<>>, text |-> ""]
TextDetail(txt) == [kind |-> "text", items |-> <<>>, text |-> txt]
ListDetail(items) == [kind |-> "list", items |-> items, text |-> ""]

AxiosFailures == {
    [hasResponse |-> TRUE, status |-> 422,
     detail |-> ListDetail(<<[hasLoc |-> TRUE, loc |-> <<"body", "query">>,
                              msg |-> "too short"]>>),
     message |-> "Request failed with status code 422"],
    [hasResponse |-> TRUE, status |-> 500, detail |-> TextDetail("Internal error"),
     message |-> "Request failed with status code 500"],
    [hasResponse |-> FALSE, status |-> 0, detail |-> NoDetail,
     message |-> "Network Error"] }

RECURSIVE join(_, _)
\* Array.prototype.join
join(parts, sep) ==
    IF Len(parts) = 0 THEN ""
    ELSE IF Len(parts) = 1 THEN parts[1]
    ELSE parts[1] \o sep \o join(Tail(parts), sep)

\* JSON.stringify of an error object, and JSON.parse of that text: the text
\* is kept as the object it denotes, tagged as a string
JSONstringify(obj) == [text |-> obj]
JSONparse(str) == str.text

\* error.response?.data?.detail is truthy
detailTruthy(d) == d.kind = "list" \/ (d.kind = "text" /\ d.text # "")

MsgCheckInput == "Please check your input and try again."
MsgNetworkFallback == "Network error. Please check your connection and try again."

\* serverValidationError naming only the last part of the location
serverValidationError_lastLoc(e) ==
    [type |-> "validation",
     errors |-> [k \in DOMAIN e.detail.items |->
                    [field |-> IF e.detail.items[k].hasLoc
                               THEN e.detail.items[k].loc[Len(e.detail.items[k].loc)]
                               ELSE "query",
                     message |-> e.detail.items[k].msg,
                     type |-> "validation"]],
     message |-> MsgCheckInput]

\* the 422 branch: one entry per Pydantic error
serverValidationError(e) ==
    [type |-> "validation",
     errors |-> [k \in DOMAIN e.detail.items |->
                    [field |-> IF e.detail.items[k].hasLoc
                               THEN join(e.detail.items[k].loc, ".")
                               ELSE "query",
                     message |-> e.detail.items[k].msg,
                     type |-> "validation"]],
     message |-> MsgCheckInput]

\* the branch of the other API errors
apiError(e) == [type |-> "api", message |-> e.detail, status |-> e.status]

\* networkError that always reports the fallback text
networkError_fallbackOnly(e) ==
    [type |-> "network", message |-> MsgNetworkFallback, originalError |-> e.message]

\* the last branch: network or other errors
networkError(e) ==
    [type |-> "network",
     message |-> IF e.message # "" THEN e.message ELSE MsgNetworkFallback,
     originalError |-> e.message]

\* gatewayError taking every 422 for a list of field errors
gatewayError_any422(e) ==
    IF e.hasResponse /\ detailTruthy(e.detail)
    THEN IF e.status = 422
         THEN serverValidationError(e)
         ELSE apiError(e)
    ELSE networkError(e)

\* the object api.searchTools serialises in its catch block
gatewayError(e) ==
    IF e.hasResponse /\ detailTruthy(e.detail)
    THEN IF e.status = 422 /\ e.detail.kind = "list"
         THEN serverValidationError(e)
         ELSE apiError(e)
    ELSE networkError(e)

\* new Error(JSON.stringify(...)) thrown by api.searchTools
thrownError(e) == [type |-> "Error", message |-> JSONstringify(gatewayError(e))]

----------------------------------------------------------------------------
(* Inputs *)

Rep(c, n) == [i \in 1..n |-> c]

QueryOk == <<"g","o">>
QueryBlank == <<" "," ">>
QueryShort == <<" ","a"," ">>
QueryLong == Rep("a", MaxQueryLength + 1)
QueryScript == <<"<","S","c","r","i","p","t",">">>
QuerySql == <<"d","r","o","p"," "," ","t","a","b","l","e">>
QuerySpecial == <<"a","b","!","?">>

Queries == {QueryBlank, QueryShort, QueryLong, QueryOk}

\* queries that fail several checks at once, and queries around the limits
QueryEmpty == <<>>
QueryLongBlank == Rep(" ", MaxQueryLength + 1)
QueryLongShort == Rep(" ", MaxQueryLength) \o <<"a">>
QueryLongScript == Rep("a", MaxQueryLength - 6) \o <<"<","s","c","r","i","p","t">>
QueryScriptAlert == <<"<","s","c","r","i","p","t",">","a","l","e","r","t","(","1",")","<","/","s","c","r","i","p","t",">">>
QueryUnionSelect == <<"u","n","i","o","n"," ","s","e","l","e","c","t"," ","*"," ","f","r","o","m"," ","u","s","e","r","s">>
QueryOnloadDrop == <<"o","n","l","o","a","d","=","x"," ",";","d","r","o","p"," ","i","t">>
QuerySqlSpecial == <<";","d","r","o","p","!","!","!">>
QueryShortSpecial == <<"!">>
QueryUnderscores == <<"_","_","a","_","_">>
QueryRatio1of3 == <<"a","b","!">>
QueryRatio1of4 == <<"a","b","c","!">>
QueryRatio3of10 == <<"a","b","c"," ","e","f","g","!","?","%">>
QueryRatio4of10 == <<"a","b","c","d","e","f","!","?","%","#">>
QueryRatio60of200 == Rep("a", 140) \o Rep("!", 60)
QueryRatio61of200 == Rep("a", 139) \o Rep("!", 61)

\* exampleQueries[4]
ExampleQuery == <<"W","e","b"," ","s","c","r","a","p","i","n","g"," ","t","o","o","l","s">>

ValidationQueries ==
    {QueryEmpty, QueryBlank, QueryShort, QueryLong, QueryOk, QueryScript, QuerySql,
     QuerySpecial, QueryLongBlank, QueryLongShort, QueryLongScript, QueryScriptAlert,
     QueryUnionSelect, QueryOnloadDrop, QuerySqlSpecial, QueryShortSpecial,
     QueryUnderscores, QueryRatio1of3, QueryRatio1of4, QueryRatio3of10,
     QueryRatio4of10, QueryRatio60of200, QueryRatio61of200, ExampleQuery}

\* the texts typed into the search input of the running application
UIQueries == {QueryEmpty, QueryBlank, QueryShort, QueryOk, QueryScript, QuerySpecial}

AllQueries == Queries \cup ValidationQueries \cup UIQueries

\* hookValidation over the inputs, evaluated once
hookOutcome == [q \in AllQueries |-> hookValidation(q)]

----------------------------------------------------------------------------
(* The state machine *)

NoneSettled == [kind |-> "none", call |-> 0, query |-> <<>>, value |-> NullValue]

\* no timeout of the error effect is pending
NoTimer == {}

Init ==
    /\ now = TimePoints[1]
    /\ loading = FALSE
    /\ loadingProgress = 0
    /\ loadingStage = ""
    /\ error = Null
    /\ tickerRef = 0
    /\ subs = <<>>
    /\ settled = NoneSettled
    /\ posts = 0
    /\ query = <<>>
    /\ toasts = <<>>
    /\ removalTimers = {}
    /\ errorTimer = NoTimer
    /\ toastSeq = 0
    /\ gestures = 0
    /\ results = NullValue
    /\ autoCloseTimers = {}
    /\ exitTimers = {}

\* clearInterval(id)
clearInterval(ss, id) ==
    [i \in DOMAIN ss |-> IF i = id THEN [ss[i] EXCEPT !.interval = "cleared"]
                         ELSE ss[i]]

\* if (tickerRef.current) { clearInterval(tickerRef.current); tickerRef.current = null; }
clearTicker(ss, ref) == IF ref # 0 THEN clearInterval(ss, ref) ELSE ss

\* handleSearch(q) up to its return or its await
Submit(q) ==
    LET v == hookOutcome[q] IN
    IF ~v.pass
    THEN /\ error' = IF v.message = "" THEN error ELSE validationError(v.message)
         /\ settled' = [kind |-> "resolved", call |-> 0, query |-> q, value |-> NullValue]
         /\ UNCHANGED <<now, loading, loadingProgress, loadingStage, tickerRef, subs, posts>>
    ELSE /\ Len(subs) < MaxCalls
         /\ loading' = TRUE
         /\ loadingProgress' = 0
         /\ loadingStage' = LabelInit
         /\ error' = Null
         /\ subs' = Append(subs, [startTime |-> now, pc |-> "await",
                                  interval |-> "live",
                                  hold |-> "none", holdDue |-> 0])
         /\ tickerRef' = Len(subs) + 1
         /\ posts' = posts + 1
         /\ UNCHANGED <<now, settled>>

\* the interval callback of subs[i]
Tick(i) ==
    /\ i \in DOMAIN subs
    /\ subs[i].interval = "live"
    /\ now >= subs[i].startTime + TickPeriod
    /\ loadingStage' = stages[currIndex(now - subs[i].startTime)].label
    /\ loadingProgress' = published(loadingProgress, target(now - subs[i].startTime))
    /\ UNCHANGED <<now, loading, error, tickerRef, subs, settled, posts>>

\* axios.post of subs[i] answers 2xx: handleSearch resumes after its await
Succeed(i, data) ==
    /\ i \in DOMAIN subs
    /\ subs[i].pc = "await"
    /\ loadingProgress' = 100
    /\ loadingStage' = LabelDone
    /\ tickerRef' = 0
    /\ subs' = [clearTicker(subs, tickerRef) EXCEPT
                    ![i].pc = "returned", ![i].hold = "armed",
                    ![i].holdDue = now + HoldDelay]
    /\ settled' = [kind |-> "resolved", call |-> i, query |-> <<>>, value |-> data]
    /\ UNCHANGED <<now, loading, error, posts>>

\* Fail with a catch block that does not rethrow
Fail_swallow(i, e) ==
    /\ i \in DOMAIN subs
    /\ subs[i].pc = "await"
    /\ tickerRef' = 0
    /\ subs' = [clearTicker(subs, tickerRef) EXCEPT ![i].pc = "thrown"]
    /\ loading' = FALSE
    /\ loadingProgress' = 0
    /\ loadingStage' = ""
    /\ error' = JSONparse(thrownError(e).message)
    /\ settled' = [kind |-> "resolved", call |-> i, query |-> <<>>, value |-> NullValue]
    /\ UNCHANGED <<now, posts>>

\* Fail with a catch block that calls api.searchTools once more
Fail_retry(i, e) ==
    /\ i \in DOMAIN subs
    /\ subs[i].pc = "await"
    /\ tickerRef' = 0
    /\ subs' = [clearTicker(subs, tickerRef) EXCEPT ![i].pc = "thrown"]
    /\ loading' = FALSE
    /\ loadingProgress' = 0
    /\ loadingStage' = ""
    /\ error' = JSONparse(thrownError(e).message)
    /\ settled' = [kind |-> "rejected", call |-> i, query |-> <<>>, value |-> thrownError(e)]
    /\ posts' = posts + 1
    /\ UNCHANGED now

\* axios.post of subs[i] rejects with e: api.searchTools throws, handleSearch catches
Fail(i, e) ==
    /\ i \in DOMAIN subs
    /\ subs[i].pc = "await"
    /\ tickerRef' = 0
    /\ subs' = [clearTicker(subs, tickerRef) EXCEPT ![i].pc = "thrown"]
    /\ loading' = FALSE
    /\ loadingProgress' = 0
    /\ loadingStage' = ""
    /\ error' = JSONparse(thrownError(e).message)
    /\ settled' = [kind |-> "rejected", call |-> i, query |-> <<>>, value |-> thrownError(e)]
    /\ UNCHANGED <<now, posts>>

\* the setTimeout callback armed by the success path of subs[i]
HoldExpire(i) ==
    /\ i \in DOMAIN subs
    /\ subs[i].hold = "armed"
    /\ now >= subs[i].holdDue
    /\ loading' = FALSE
    /\ loadingProgress' = 0
    /\ loadingStage' = ""
    /\ subs' = [subs EXCEPT ![i].hold = "fired", ![i].holdDue = 0]
    /\ UNCHANGED <<now, error, tickerRef, settled, posts>>

\* time passes
Advance ==
    /\ \E k \in DOMAIN TimePoints : TimePoints[k] > now
    /\ now' = TimePoints[CHOOSE k \in DOMAIN TimePoints :
                            TimePoints[k] > now /\ \A j \in 1..(k-1) : TimePoints[j] <= now]
    /\ UNCHANGED <<loading, loadingProgress, loadingStage, error, tickerRef, subs,
                   settled, posts>>
    /\ UNCHANGED uiVars

\* the hook driven by its callers and its timers, the components left aside
Next ==
    \/ \E q \in Queries : Submit(q) /\ UNCHANGED uiVars
    \/ \E i \in 1..MaxCalls : Tick(i) /\ UNCHANGED uiVars
    \/ \E i \in 1..MaxCalls : Succeed(i, Body) /\ UNCHANGED uiVars
    \/ \E i \in 1..MaxCalls : \E e \in AxiosFailures : Fail(i, e) /\ UNCHANGED uiVars
    \/ \E i \in 1..MaxCalls : HoldExpire(i) /\ UNCHANGED uiVars
    \/ Advance

Spec == Init /\ [][Next]_vars

----------------------------------------------------------------------------
(* State functions used by the properties *)

\* the intervals created by setInterval and not yet cleared
LiveIntervals == {i \in DOMAIN subs : subs[i].interval = "live"}

\* the handleSearch calls still waiting for api.searchTools
InFlight == {i \in DOMAIN subs : subs[i].pc = "await"}

\* a success has been applied and its 700 ms reset has not run yet
HoldOutstanding == \E i \in DOMAIN subs : subs[i].hold = "armed"

\* subs[i] is not the latest submission any more
Superseded(i) == i \in DOMAIN subs /\ i < Len(subs)

\* the queries the validator is specified to reject, by the check that rejects them
ShortQueries == {q \in Queries : Len(trim(q)) < MinQueryLength}
LongQueries == {q \in Queries : Len(q) > MaxQueryLength}
RejectedQueries == ShortQueries \cup LongQueries \cup {q \in Queries : ~hookOutcome[q].pass}
BlankQueries == {q \in Queries : Len(trim(q)) = 0}

----------------------------------------------------------------------------
(* C1 .. C10 *)

\* C1: once submission b has started, the resolution (success or failure) of an
\* earlier submission a changes nothing of the controller state: loading,
\* progress, stage label, error and b's timer stay as they are.
C1_StaleResolutionInert ==
    [][\A i \in 1..MaxCalls :
          (Superseded(i) /\ (Succeed(i, Body) \/ \E e \in AxiosFailures : Fail(i, e)))
          => /\ UNCHANGED <<loading, loadingProgress, loadingStage, error>>
             /\ subs'[Len(subs)].interval = subs[Len(subs)].interval]_vars

\* C2: at most one progress timer is live, and none is live once every issued
\* request has reached a terminal state.
C2_AtMostOneTimer ==
    /\ Cardinality(LiveIntervals) <= 1
    /\ (InFlight = {} => LiveIntervals = {})

\* C3: a tick of a submission that has been superseded or has reached a terminal
\* state changes neither the progress nor the stage label.
C3_StaleTickNoOp ==
    [][\A i \in 1..MaxCalls :
          (Tick(i) /\ (Superseded(i) \/ subs[i].pc # "await"))
          => UNCHANGED <<loadingProgress, loadingStage>>]_vars

\* C4: between a submit() that enters pending and the terminal state of that
\* submission, no tick lowers the published progress: across every tick taken while
\* a request is in flight the progress stays or rises.
C4_TicksNeverDecrease ==
    [][\A j \in 1..MaxCalls :
          (Tick(j) /\ InFlight # {}) => loadingProgress' >= loadingProgress]_vars

\* C4 witness: a request is in flight, a tick has published progress, and a live
\* interval is due whose own target lies below the published value
C4_Witness ==
    /\ InFlight # {}
    /\ loading
    /\ loadingProgress > 0
    /\ loadingProgress < 100
    /\ \E j \in LiveIntervals :
          /\ now >= subs[j].startTime + TickPeriod
          /\ target(now - subs[j].startTime) < loadingProgress

\* C5, as claimed: whenever loading is true the progress is below 100.
C5_LoadingBelow100 == loading => loadingProgress < 100

\* C5, amended: whenever loading is true and no completion hold is outstanding
\* (no success whose delayed reset has still to run) the progress is below 100.
C5_PendingBelow100 == (loading /\ ~HoldOutstanding) => loadingProgress < 100

\* C5 witness: a request has waited long enough for the highest cap, with no hold
C5_Witness == loading /\ ~HoldOutstanding /\ InFlight # {} /\ loadingProgress = 99

\* C6: for every submission the progress is 100 in no state before its own
\* successful resolution is applied; that step publishes 100 with the completion
\* label and the call returns the response body unchanged.
C6_HundredOnlyAtResolution ==
    [][/\ \A i \in InFlight : loadingProgress < 100
       /\ \A i \in 1..MaxCalls :
             Succeed(i, Body) => /\ loadingProgress' = 100
                                 /\ loadingStage' = LabelDone
                                 /\ settled'.kind = "resolved"
                                 /\ settled'.value = Body]_vars

\* C7: right after a gateway failure is applied, loading is false, the progress
\* is 0, the label is empty, the error is the failure and no progress timer is live.
C7_FailureResetsAll ==
    [][\A i \in 1..MaxCalls : \A e \in AxiosFailures :
          Fail(i, e) => /\ loading' = FALSE
                        /\ loadingProgress' = 0
                        /\ loadingStage' = ""
                        /\ error' = gatewayError(e)
                        /\ \A j \in DOMAIN subs' : subs'[j].interval # "live"]_vars

\* C8: a submit() of a query that validation rejects (among them every query whose
\* trimmed length is below 2 or whose length exceeds 200) makes no network call,
\* does not set loading, creates no timer and leaves progress and label unchanged.
C8_RejectedQueryNoIO ==
    [][\A q \in RejectedQueries :
          Submit(q) => UNCHANGED <<posts, loading, loadingProgress, loadingStage,
                                   tickerRef, subs>>]_vars

\* C8 witness: an over-long query was rejected while another request was pending
\* with published progress
C8_Witness ==
    /\ settled.call = 0
    /\ settled.query \in LongQueries
    /\ InFlight # {}
    /\ loading
    /\ loadingProgress > 0
    /\ posts = 1

\* C9, as claimed: every submit() of a query that fails validation, a blank one
\* included, sets the error to a validation error.
C9_EveryRejectionSetsError ==
    [][\A q \in RejectedQueries :
          Submit(q) => /\ error'.type = "validation"
                       /\ error'.message = hookOutcome[q].message
                       /\ error'.message # ""]_vars

\* C9, amended: every submit() of a query that is not blank and fails validation
\* sets the error to the validation error of the failed check (the length
\* messages for a short or an over-long query); a blank query leaves the error
\* as it was.
C9_NonBlankRejectionSetsError ==
    [][/\ \A q \in RejectedQueries \ BlankQueries :
             Submit(q) => /\ error' = validationError(hookOutcome[q].message)
                          /\ error'.message # ""
                          /\ (q \in ShortQueries => error'.message = MsgShort)
                          /\ (q \in LongQueries \ ShortQueries => error'.message = MsgLong)
       /\ \A q \in BlankQueries : Submit(q) => error' = error]_vars

\* C9 witness: an over-long query has just been rejected and its message is the error
C9_Witness ==
    /\ settled.call = 0
    /\ settled.query \in LongQueries
    /\ error = validationError(MsgLong)

\* C10, as claimed: a call resolves with the gateway's result or rejects with a
\* structured error, and a call rejected by validation is a rejection.
C10_ResolveOrReject ==
    settled.kind # "none" =>
        \/ settled.kind = "resolved" /\ settled.call > 0 /\ settled.value = Body
        \/ settled.kind = "rejected"

\* C10, amended: a call ends in one of three ways: rejected by validation it
\* resolves with null; after a gateway success it resolves with the response
\* body; after a gateway failure it rejects with the Error the gateway threw,
\* whose message is the text of the structured error.
C10_ThreeOutcomes ==
    /\ settled.kind \in {"none", "resolved", "rejected"}
    /\ (settled.kind # "none" /\ settled.call = 0) =>
           /\ settled.kind = "resolved"
           /\ settled.value = NullValue
           /\ settled.query \in RejectedQueries
    /\ settled.call > 0 =>
           /\ settled.call \in DOMAIN subs
           /\ subs[settled.call].pc \in {"returned", "thrown"}
           /\ subs[settled.call].pc = "returned" =>
                  settled.kind = "resolved" /\ settled.value = Body
           /\ subs[settled.call].pc = "thrown" =>
                  /\ settled.kind = "rejected"
                  /\ settled.value.type = "Error"
                  /\ JSONparse(settled.value.message).type \in {"validation", "api", "network"}
    /\ \A i \in DOMAIN subs : subs[i].pc \in {"await", "returned", "thrown"}

\* C10 witness: one call was rejected by the gateway and a later one by validation
C10_Witness ==
    /\ settled.kind = "resolved"
    /\ settled.call = 0
    /\ settled.value = NullValue
    /\ \E i \in DOMAIN subs : subs[i].pc = "thrown"

----------------------------------------------------------------------------
(* The timeline of one request that stays unanswered *)

\* grid points every 100 ms from 0
TimelineFine == 71

\* the instants observed on the timeline: a fine grid over the stages, then the
\* instants around the steps of dynamicCap
TimelinePoints ==
    [k \in 1..TimelineFine |-> 100 * (k - 1)] \o
    <<9950, 10000, 17950, 18000, 27950, 28000, 28150>>

\* time passes on the timeline
AdvanceTimeline ==
    /\ now < TimelinePoints[Len(TimelinePoints)]
    /\ now' = TimelinePoints[CHOOSE k \in DOMAIN TimelinePoints :
                 TimelinePoints[k] > now /\ \A j \in 1..(k-1) : TimelinePoints[j] <= now]
    /\ UNCHANGED <<loading, loadingProgress, loadingStage, error, tickerRef, subs,
                   settled, posts>>
    /\ UNCHANGED uiVars

\* the only submission of the timeline, made at its origin
SubmitOnce ==
    subs = <<>> /\ now = TimelinePoints[1] /\ Submit(QueryOk) /\ UNCHANGED uiVars

\* the interval callback of that submission
TickOnce == Tick(1) /\ UNCHANGED uiVars

NextTimeline ==
    \/ SubmitOnce
    \/ TickOnce
    \/ AdvanceTimeline

\* the interval keeps firing and time keeps passing
SpecTimeline ==
    Init /\ [][NextTimeline]_vars /\ WF_vars(TickOnce) /\ WF_vars(AdvanceTimeline)
             /\ WF_vars(SubmitOnce)

\* elapsed time of subs[i]
Elapsed(i) == now - subs[i].startTime

----------------------------------------------------------------------------
(* SearchSection, App and ToastContainer *)

\* user gestures handled in one behaviour
MaxGestures == 3

EffectDelay == 100
SubmitToastDuration == 4000
InputToastDuration == 3000
ErrorToastDuration == 6000
\* the delay between Toast.handleClose and onClose
ExitDelay == 300

\* validateQuery without the SQL patterns
validateQuery_noSql(q) ==
    IF Len(q) = 0 \/ Len(trim(q)) = 0 THEN [isValid |-> FALSE, message |-> MsgEmpty]
    ELSE IF Len(trim(q)) < MinQueryLength THEN [isValid |-> FALSE, message |-> MsgShort]
    ELSE IF Len(q) > MaxQueryLength THEN [isValid |-> FALSE, message |-> MsgLong]
    ELSE IF anyDangerous(q) THEN [isValid |-> FALSE, message |-> MsgDangerous]
    ELSE IF tooManySpecial(q) THEN [isValid |-> FALSE, message |-> MsgSpecial]
    ELSE [isValid |-> TRUE, message |-> ""]

\* SearchSection.validateQuery
validateQuery(q) ==
    IF Len(q) = 0 \/ Len(trim(q)) = 0 THEN [isValid |-> FALSE, message |-> MsgEmpty]
    ELSE IF Len(trim(q)) < MinQueryLength THEN [isValid |-> FALSE, message |-> MsgShort]
    ELSE IF Len(q) > MaxQueryLength THEN [isValid |-> FALSE, message |-> MsgLong]
    ELSE IF anyDangerous(q) THEN [isValid |-> FALSE, message |-> MsgDangerous]
    ELSE IF anySql(q) THEN [isValid |-> FALSE, message |-> MsgSql]
    ELSE IF tooManySpecial(q) THEN [isValid |-> FALSE, message |-> MsgSpecial]
    ELSE [isValid |-> TRUE, message |-> ""]

\* validateQuery over the inputs, evaluated once
sectionOutcome == [q \in AllQueries |-> validateQuery(q)]

\* the messages m with m.includes("dangerous") || m.includes("SQL")
MentionsDangerousOrSql == {MsgDangerous, MsgSql}

MsgAnError == "An error occurred"

\* toastType presenting every error as a warning
toastType_alwaysWarning(err) == "warning"

\* toastType presenting every error as an error
toastType_alwaysError(err) == "error"

\* error.type === "validation" ? "warning" : "error"
toastType(err) == IF err.type = "validation" THEN "warning" ELSE "error"

\* error.message || "An error occurred"; the detail of an api error is a string here
toastMessage(err) ==
    IF err.type = "api"
    THEN IF err.message.text # "" THEN err.message.text ELSE MsgAnError
    ELSE IF err.message # "" THEN err.message ELSE MsgAnError

\* the state ToastContainer.addToast works on
toastState == [toasts |-> toasts, removalTimers |-> removalTimers, toastSeq |-> toastSeq]

\* prev.some((toast) => toast.message === message && toast.type === type)
exists(prev, message, type) ==
    \E k \in DOMAIN prev : prev[k].message = message /\ prev[k].type = type

\* addToast without the test for an identical toast
addToast_noDedupe(st, message, type, duration) ==
    [toasts |-> Append(st.toasts, [id |-> st.toastSeq + 1, message |-> message,
                                   type |-> type, duration |-> duration]),
     removalTimers |-> IF duration > 0
                       THEN st.removalTimers \cup
                                {[id |-> st.toastSeq + 1, due |-> now + duration]}
                       ELSE st.removalTimers,
     toastSeq |-> st.toastSeq + 1]

\* ToastContainer.addToast; the id Date.now() + Math.random() is a fresh number
addToast(st, message, type, duration) ==
    IF exists(st.toasts, message, type) THEN st
    ELSE [toasts |-> Append(st.toasts, [id |-> st.toastSeq + 1, message |-> message,
                                        type |-> type, duration |-> duration]),
          removalTimers |-> IF duration > 0
                            THEN st.removalTimers \cup
                                     {[id |-> st.toastSeq + 1, due |-> now + duration]}
                            ELSE st.removalTimers,
          toastSeq |-> st.toastSeq + 1]

\* the toast id is in the list
Displayed(list, id) == \E k \in DOMAIN list : list[k].id = id

\* the auto-close timeouts after the container has rendered list: the Toast of an
\* id that left the list is unmounted and its effect cleanup clears the timeout,
\* the Toast of a new id is mounted and its effect sets one when duration > 0
mountToasts(list) ==
    {t \in autoCloseTimers : Displayed(list, t.id)}
        \cup {[id |-> list[k].id, due |-> now + list[k].duration] :
                 k \in {j \in DOMAIN list : /\ ~Displayed(toasts, list[j].id)
                                            /\ list[j].duration > 0}}

\* the state addToast returns becomes the state of the container
setToasts(st) ==
    /\ toasts' = st.toasts
    /\ removalTimers' = st.removalTimers
    /\ toastSeq' = st.toastSeq
    /\ autoCloseTimers' = mountToasts(st.toasts)

\* removeToast that drops the oldest toast when the id is not in the list
removeToast_orOldest(prev, id) ==
    IF \E k \in DOMAIN prev : prev[k].id = id
    THEN SelectSeq(prev, LAMBDA t : t.id # id)
    ELSE IF prev = <<>> THEN prev ELSE Tail(prev)

\* prev.filter((toast) => toast.id !== id)
removeToast(prev, id) == SelectSeq(prev, LAMBDA t : t.id # id)

\* the error effect of SearchSection run for a new value of error: its cleanup has
\* cleared the pending timeout, and a timeout is set when the value is an error
errorEffect(err) ==
    IF err # Null
    THEN {[due |-> now + EffectDelay,
           message |-> toastMessage(err), type |-> toastType(err)]}
    ELSE NoTimer

\* App.onSearch: handleSearch(query), then the effects the new error runs
onSearch ==
    /\ Submit(query)
    /\ errorTimer' = IF hookOutcome[query].pass THEN NoTimer
                     ELSE IF hookOutcome[query].message = "" THEN errorTimer
                     ELSE errorEffect(error')
    /\ UNCHANGED <<query, toasts, removalTimers, toastSeq, results, autoCloseTimers,
                   exitTimers>>

\* the body handleSearchClick and handleKeyPress (Enter) share
submitQuery ==
    IF sectionOutcome[query].isValid
    THEN onSearch
    ELSE /\ setToasts(addToast(toastState, sectionOutcome[query].message, "warning",
                               SubmitToastDuration))
         /\ error' = validationError(sectionOutcome[query].message)
         /\ errorTimer' = errorEffect(validationError(sectionOutcome[query].message))
         /\ UNCHANGED <<now, loading, loadingProgress, loadingStage, tickerRef, subs,
                        settled, posts, query, results, exitTimers>>

\* click on the button, disabled={loading || !query.trim()}
handleSearchClick ==
    /\ gestures < MaxGestures
    /\ ~loading
    /\ sectionOutcome[query].message # MsgEmpty
    /\ submitQuery
    /\ gestures' = gestures + 1

\* handleKeyPress of an input that is not disabled while loading
handleKeyPress_whileLoading ==
    /\ gestures < MaxGestures
    /\ submitQuery
    /\ gestures' = gestures + 1

\* Enter in the input, disabled={loading}
handleKeyPress ==
    /\ gestures < MaxGestures
    /\ ~loading
    /\ submitQuery
    /\ gestures' = gestures + 1

\* handleInputChange with an error effect that has no cleanup
handleInputChange_keepsTimer(newQuery) ==
    /\ gestures < MaxGestures
    /\ ~loading
    /\ query' = newQuery
    /\ error' = Null
    /\ errorTimer' = errorTimer
    /\ setToasts(IF /\ Len(newQuery) > 0
                    /\ ~sectionOutcome[newQuery].isValid
                    /\ sectionOutcome[newQuery].message \in MentionsDangerousOrSql
                 THEN addToast(toastState, sectionOutcome[newQuery].message, "warning",
                               InputToastDuration)
                 ELSE toastState)
    /\ gestures' = gestures + 1
    /\ UNCHANGED <<now, loading, loadingProgress, loadingStage, tickerRef, subs,
                   settled, posts, results, exitTimers>>

\* typing newQuery into the input; the effects of App on [query] clear the error too
handleInputChange(newQuery) ==
    /\ gestures < MaxGestures
    /\ ~loading
    /\ query' = newQuery
    /\ error' = Null
    /\ errorTimer' = NoTimer
    /\ setToasts(IF /\ Len(newQuery) > 0
                    /\ ~sectionOutcome[newQuery].isValid
                    /\ sectionOutcome[newQuery].message \in MentionsDangerousOrSql
                 THEN addToast(toastState, sectionOutcome[newQuery].message, "warning",
                               InputToastDuration)
                 ELSE toastState)
    /\ gestures' = gestures + 1
    /\ UNCHANGED <<now, loading, loadingProgress, loadingStage, tickerRef, subs,
                   settled, posts, results, exitTimers>>

\* click on an example: setQuery(example); the effects of App on [query] clear the
\* error when the query changes
exampleClick ==
    /\ gestures < MaxGestures
    /\ ~loading
    /\ query' = ExampleQuery
    /\ error' = IF query # ExampleQuery THEN Null ELSE error
    /\ errorTimer' = IF query # ExampleQuery THEN NoTimer ELSE errorTimer
    /\ gestures' = gestures + 1
    /\ UNCHANGED <<now, loading, loadingProgress, loadingStage, tickerRef, subs,
                   settled, posts, toasts, removalTimers, toastSeq, results,
                   autoCloseTimers, exitTimers>>

\* handleSearch called with the query by a caller that has not validated it
handleSearchCall ==
    /\ gestures < MaxGestures
    /\ onSearch
    /\ gestures' = gestures + 1

\* the gateway fails while the components are mounted: the error effect runs
FailShown(i, e) ==
    /\ Fail(i, e)
    /\ errorTimer' = errorEffect(error')
    /\ UNCHANGED <<query, toasts, removalTimers, toastSeq, gestures, results,
                   autoCloseTimers, exitTimers>>

\* a response body that is falsy ("" or null)
EmptyBody == [type |-> "empty"]

\* a response body without companies
BodyNoTools == [type |-> "body", companies |-> <<>>, analysis |-> ""]

\* the bodies a 2xx answer carries
Bodies == {Body, BodyNoTools, EmptyBody}

\* if (searchResults)
truthy(data) == data.type = "body"

\* SucceedShown that stores whatever handleSearch returned
SucceedShown_always(i, data) ==
    /\ Succeed(i, data)
    /\ results' = data
    /\ UNCHANGED <<query, toasts, removalTimers, errorTimer, toastSeq, gestures,
                   autoCloseTimers, exitTimers>>

\* the gateway answers 2xx while App.onSearch awaits handleSearch
SucceedShown(i, data) ==
    /\ Succeed(i, data)
    /\ results' = IF truthy(data) THEN data ELSE results
    /\ UNCHANGED <<query, toasts, removalTimers, errorTimer, toastSeq, gestures,
                   autoCloseTimers, exitTimers>>

\* the timeout of the error effect
errorTimeout ==
    /\ \E t \in errorTimer :
          /\ now >= t.due
          /\ setToasts(addToast(toastState, t.message, t.type, ErrorToastDuration))
    /\ errorTimer' = NoTimer
    /\ UNCHANGED <<now, loading, loadingProgress, loadingStage, error, tickerRef, subs,
                   settled, posts, query, gestures, results, exitTimers>>

\* the timeout addToast has set for the toast of t
removalTimeout(t) ==
    /\ t \in removalTimers
    /\ now >= t.due
    /\ toasts' = removeToast(toasts, t.id)
    /\ removalTimers' = removalTimers \ {t}
    /\ autoCloseTimers' = mountToasts(removeToast(toasts, t.id))
    /\ UNCHANGED <<now, loading, loadingProgress, loadingStage, error, tickerRef, subs,
                   settled, posts, query, errorTimer, toastSeq, gestures, results,
                   exitTimers>>

\* Toast.handleClose of the toast id: setIsExiting(true) and the exit timeout
handleClose(id) == exitTimers' = exitTimers \cup {[id |-> id, due |-> now + ExitDelay]}

\* click on the close button of a displayed toast
closeClick(id) ==
    /\ gestures < MaxGestures
    /\ Displayed(toasts, id)
    /\ handleClose(id)
    /\ gestures' = gestures + 1
    /\ UNCHANGED <<now, loading, loadingProgress, loadingStage, error, tickerRef, subs,
                   settled, posts, query, toasts, removalTimers, errorTimer, toastSeq,
                   results, autoCloseTimers>>

\* the auto-close timeout of a mounted Toast; the timeout of addToast for the same
\* toast is due at the same instant, and either may run first
autoClose(t) ==
    /\ t \in autoCloseTimers
    /\ now >= t.due
    /\ handleClose(t.id)
    /\ autoCloseTimers' = autoCloseTimers \ {t}
    /\ UNCHANGED <<now, loading, loadingProgress, loadingStage, error, tickerRef, subs,
                   settled, posts, query, toasts, removalTimers, errorTimer, toastSeq,
                   gestures, results>>

\* the exit timeout of handleClose: onClose is removeToast(toast.id); it is not
\* cleared when the Toast is unmounted
exitTimeout(t) ==
    /\ t \in exitTimers
    /\ now >= t.due
    /\ toasts' = removeToast(toasts, t.id)
    /\ exitTimers' = exitTimers \ {t}
    /\ autoCloseTimers' = mountToasts(removeToast(toasts, t.id))
    /\ UNCHANGED <<now, loading, loadingProgress, loadingStage, error, tickerRef, subs,
                   settled, posts, query, removalTimers, errorTimer, toastSeq, gestures,
                   results>>

\* the instants at which a pending setTimeout is due
TimeoutsDue ==
    {t.due : t \in errorTimer} \cup {t.due : t \in removalTimers}
        \cup {t.due : t \in autoCloseTimers} \cup {t.due : t \in exitTimers}

\* the instants at which a timer of the hook is due
HookTimersDue ==
    {subs[i].holdDue : i \in {j \in DOMAIN subs : subs[j].hold = "armed"}}
        \cup {subs[i].startTime + TickPeriod : i \in LiveIntervals}

\* time passes up to the next instant at which a timer is due; a timeout that is
\* due runs before time passes
AdvanceToTimer ==
    /\ \A d \in TimeoutsDue : d > now
    /\ \E d \in TimeoutsDue \cup HookTimersDue : d > now
    /\ now' = CHOOSE d \in TimeoutsDue \cup HookTimersDue :
                 d > now /\ \A c \in TimeoutsDue \cup HookTimersDue : c > now => d <= c
    /\ UNCHANGED <<loading, loadingProgress, loadingStage, error, tickerRef, subs,
                   settled, posts>>
    /\ UNCHANGED uiVars

\* the application in use: every submission goes through SearchSection
NextUI ==
    \/ \E q \in UIQueries : handleInputChange(q)
    \/ exampleClick
    \/ handleSearchClick
    \/ handleKeyPress
    \/ \E i \in 1..MaxCalls : Tick(i) /\ UNCHANGED uiVars
    \/ \E i \in 1..MaxCalls : \E data \in Bodies : SucceedShown(i, data)
    \/ \E i \in 1..MaxCalls : \E e \in AxiosFailures : FailShown(i, e)
    \/ \E i \in 1..MaxCalls : HoldExpire(i) /\ UNCHANGED uiVars
    \/ errorTimeout
    \/ \E t \in removalTimers : removalTimeout(t)
    \/ \E id \in 1..toastSeq : closeClick(id)
    \/ \E t \in autoCloseTimers : autoClose(t)
    \/ \E t \in exitTimers : exitTimeout(t)
    \/ AdvanceToTimer

SpecUI == Init /\ [][NextUI]_vars

\* the query under validation is typed once
typeQuery(q) == query = <<>> /\ handleInputChange(q)

\* the two validators applied to one query of any kind; the requests issued for
\* the queries they accept stay unanswered
NextValidation ==
    \/ \E q \in ValidationQueries : typeQuery(q)
    \/ handleSearchClick
    \/ handleKeyPress
    \/ handleSearchCall
    \/ \E i \in 1..MaxCalls : Tick(i) /\ UNCHANGED uiVars
    \/ errorTimeout
    \/ \E t \in removalTimers : removalTimeout(t)
    \/ AdvanceToTimer

SpecValidation == Init /\ [][NextValidation]_vars

----------------------------------------------------------------------------
(* C11 .. C20 *)

\* C15: the number of outbound POSTs equals the number of submissions that passed
\* validation: one call per such submission, none for a rejected one, and no retry
\* after a failure.
C15_OnePostPerSubmission == posts = Len(subs)

\* C15 witness: two submissions passed, one of them failed at the gateway, and a
\* rejected submission came last
C15_Witness ==
    /\ posts = 2
    /\ \E i \in DOMAIN subs : subs[i].pc = "thrown"
    /\ settled.call = 0
    /\ settled.kind = "resolved"

\* the stage the claim selects: the last stage whose threshold is <= elapsed
\* (the first stage while no threshold has been reached)
LastThresholdReached(elapsed) ==
    IF \E i \in DOMAIN stages : stages[i].t <= elapsed
    THEN CHOOSE i \in DOMAIN stages :
            stages[i].t <= elapsed /\ \A j \in (i+1)..Len(stages) : stages[j].t > elapsed
    ELSE 1

\* the stage whose interval (previous threshold, threshold] holds elapsed, the
\* final stage beyond the last threshold
FirstThresholdNotPassed(elapsed) ==
    IF elapsed > stages[Len(stages)].t THEN Len(stages)
    ELSE CHOOSE i \in DOMAIN stages :
            elapsed <= stages[i].t /\ (i = 1 \/ elapsed > stages[i - 1].t)

\* C18, as claimed: every tick uses the last stage whose threshold is <= elapsed.
C18_LastStageBelowElapsed ==
    [][Tick(1) => loadingStage' = stages[LastThresholdReached(Elapsed(1))].label]_vars

\* C18, amended: every tick uses the first stage whose threshold is >= elapsed
\* (stage i covers previous threshold < elapsed <= threshold i, thresholds 800,
\* 2500, 4500, 6500 ms), the final stage once elapsed passes 6500 ms: its label is
\* published and the progress lies within its bounds (the cap for the final stage).
C18_FirstStageNotPassed ==
    [][Tick(1) =>
          LET idx == FirstThresholdNotPassed(Elapsed(1)) IN
          /\ loadingStage' = stages[idx].label
          /\ loadingProgress' >= stages[idx].min
          /\ loadingProgress' <= (IF idx = Len(stages) THEN 99 ELSE stages[idx].max)
          /\ (Elapsed(1) > 800 /\ Elapsed(1) <= 2500 => idx = 2)
          /\ (Elapsed(1) > 6500 => idx = 4)]_vars

\* C18 witness: a tick ran between the first and the second threshold
C18_Witness ==
    /\ subs # <<>>
    /\ Elapsed(1) > 800
    /\ Elapsed(1) < 2500
    /\ loadingStage = stages[2].label
    /\ loadingProgress > 25

\* C19: while the request stays unanswered, every tick from 6500 ms on publishes
\* the cap of its elapsed time (92 below 10 s, 95 below 18 s, 97 below 28 s, 99
\* afterwards); the progress eventually reaches 99 and from then on stays 99.
C19_CapFollowedTo99 ==
    /\ [][(Tick(1) /\ Elapsed(1) >= 6500) =>
             loadingProgress' = (IF Elapsed(1) < 10000 THEN 92
                                 ELSE IF Elapsed(1) < 18000 THEN 95
                                 ELSE IF Elapsed(1) < 28000 THEN 97
                                 ELSE 99)]_vars
    /\ (InFlight # {}) ~> (loadingProgress = 99)
    /\ [][loadingProgress = 99 => loadingProgress' = 99]_vars

\* C19 witness: the request is still unanswered and the progress has reached 99
C19_Witness == InFlight = {1} /\ loading /\ loadingProgress = 99 /\ Elapsed(1) >= 28000

----------------------------------------------------------------------------
(* The validators and the toasts: C11, C16, C17, C20 *)

\* the messages of the six checks, in the order claimed
CheckMessages == <<MsgEmpty, MsgShort, MsgLong, MsgDangerous, MsgSql, MsgSpecial>>

\* the first check q fails in that order, 0 when it fails none; evaluated once over
\* the inputs
earliestFailing ==
    [q \in AllQueries |->
        IF Len(trim(q)) = 0 THEN 1
        ELSE IF Len(trim(q)) < 2 THEN 2
        ELSE IF Len(q) > 200 THEN 3
        ELSE IF anyDangerous(q) THEN 4
        ELSE IF anySql(q) THEN 5
        ELSE IF 10 * specialCharCount(q) > 3 * Len(q) THEN 6
        ELSE 0]

\* a submit gesture handled by SearchSection
SubmitGesture == handleSearchClick \/ handleKeyPress

\* C11: both validators report the message of the earliest failing check, in the
\* order empty, trimmed length < 2, raw length > 200, dangerous markup, SQL, special
\* characters, and nothing after it: SearchSection sets the error and the toast of
\* that check; the hook sets the error of that check (for a blank query it stops at
\* the first check and returns); neither issues a request.  An over-long query with
\* <script reports the length, <script>alert(1)</script> the dangerous content,
\* union select * from users the SQL content.
C11_EarliestFailingCheckReported ==
    [][/\ (SubmitGesture /\ earliestFailing[query] # 0) =>
              /\ error' = validationError(CheckMessages[earliestFailing[query]])
              /\ exists(toasts', CheckMessages[earliestFailing[query]], "warning")
              /\ posts' = posts /\ subs' = subs
       /\ (SubmitGesture /\ earliestFailing[query] = 0) => posts' = posts + 1
       /\ (handleSearchCall /\ earliestFailing[query] > 1) =>
              /\ error' = validationError(CheckMessages[earliestFailing[query]])
              /\ posts' = posts /\ subs' = subs
       /\ (handleSearchCall /\ earliestFailing[query] = 1) =>
              /\ error' = error
              /\ posts' = posts /\ subs' = subs
       /\ (handleSearchCall /\ earliestFailing[query] = 0) => posts' = posts + 1
       /\ ((SubmitGesture \/ handleSearchCall) /\ query = QueryLongScript) =>
              error'.message = MsgLong
       /\ ((SubmitGesture \/ handleSearchCall) /\ query = QueryScriptAlert) =>
              error'.message = MsgDangerous
       /\ ((SubmitGesture \/ handleSearchCall) /\ query = QueryUnionSelect) =>
              error'.message = MsgSql]_vars

\* C11 witness: the over-long query with <script has been rejected by SearchSection
\* and by the hook, with the message of the length check
C11_Witness ==
    /\ query = QueryLongScript
    /\ settled.kind = "resolved" /\ settled.query = QueryLongScript
    /\ error = validationError(MsgLong)
    /\ exists(toasts, MsgLong, "warning")
    /\ posts = 0

\* the messages of the client-side validation
ClientMessages == {MsgEmpty, MsgShort, MsgLong, MsgDangerous, MsgSql, MsgSpecial}

C17_OneToastPerPair ==
    /\ [](\A j, k \in DOMAIN toasts :
              (toasts[j].message = toasts[k].message /\ toasts[j].type = toasts[k].type)
                  => j = k)
    /\ [](\A t, u \in removalTimers : t.id = u.id => t = u)
    /\ [](Cardinality(removalTimers) <= toastSeq)
    /\ [][(errorTimeout /\ \E t \in errorTimer : exists(toasts, t.message, t.type)) =>
              UNCHANGED <<toasts, removalTimers, toastSeq>>]_vars
    /\ [][(SubmitGesture /\ ~sectionOutcome[query].isValid
              /\ exists(toasts, sectionOutcome[query].message, "warning")) =>
              UNCHANGED <<toasts, removalTimers, toastSeq>>]_vars

\* C17 witness: the error effect has called addToast for the pair the rejected
\* submit gesture had displayed 100 ms before; one toast, one id, one timer
C17_Witness ==
    /\ now = EffectDelay
    /\ error.type = "validation"
    /\ errorTimer = NoTimer
    /\ Len(toasts) = 1
    /\ toasts[1].duration = SubmitToastDuration
    /\ toastSeq = 1
    /\ Cardinality(removalTimers) = 1

\* q passes the emptiness, length, markup and SQL checks; evaluated once
passesEarlierChecks ==
    [q \in AllQueries |->
        /\ Len(trim(q)) >= 2
        /\ Len(q) <= 200
        /\ ~anyDangerous(q)
        /\ ~anySql(q)]

\* the characters of q that are neither word characters nor whitespace number more
\* than 0.3 times its raw length; evaluated once
aboveRatio ==
    [q \in AllQueries |->
        10 * Cardinality({i \in DOMAIN q : ~IsWord(q[i]) /\ ~IsSpace(q[i])}) > 3 * Len(q)]

\* C20: a query that passes the emptiness, length, markup and SQL checks is rejected
\* by both validators, with the message of the special-character check, exactly
\* when its characters that are neither word characters nor whitespace number more
\* than 0.3 times its raw length; at exactly 0.3 (3 of 10, 60 of 200) it is accepted
\* and the request is issued.
C20_SpecialRatioStrict ==
    [][/\ ((SubmitGesture \/ handleSearchCall)
              /\ passesEarlierChecks[query] /\ aboveRatio[query]) =>
              /\ error' = validationError(MsgSpecial)
              /\ posts' = posts /\ subs' = subs
       /\ ((SubmitGesture \/ handleSearchCall)
              /\ passesEarlierChecks[query] /\ ~aboveRatio[query]) =>
              /\ error' = Null
              /\ loading'
              /\ posts' = posts + 1
       /\ ((SubmitGesture \/ handleSearchCall)
              /\ query \in {QueryRatio3of10, QueryRatio60of200, QueryRatio1of4}) =>
              posts' = posts + 1
       /\ ((SubmitGesture \/ handleSearchCall)
              /\ query \in {QueryRatio4of10, QueryRatio61of200, QueryRatio1of3}) =>
              error'.message = MsgSpecial]_vars

\* C20 witness: the query with 3 special characters out of 10 has been accepted
C20_Witness ==
    /\ query = QueryRatio3of10
    /\ loading
    /\ posts = 1
    /\ error = Null

----------------------------------------------------------------------------
(* The gateway under the shapes of failure axios can report *)

\* handleSearch calls that pass validation in one behaviour of SpecGateway
MaxGatewayCalls == 1

GatewayFailures == AxiosFailures \cup {
    [hasResponse |-> TRUE, status |-> 422,
     detail |-> ListDetail(<<[hasLoc |-> TRUE, loc |-> <<"body", "query">>,
                              msg |-> "too short"],
                             [hasLoc |-> FALSE, loc |-> <<>>, msg |-> "bad value"]>>),
     message |-> "Request failed with status code 422"],
    [hasResponse |-> TRUE, status |-> 422, detail |-> ListDetail(<<>>),
     message |-> "Request failed with status code 422"],
    [hasResponse |-> TRUE, status |-> 422, detail |-> TextDetail("Unprocessable"),
     message |-> "Request failed with status code 422"],
    [hasResponse |-> TRUE, status |-> 400,
     detail |-> ListDetail(<<[hasLoc |-> TRUE, loc |-> <<"body">>, msg |-> "bad body"]>>),
     message |-> "Request failed with status code 400"],
    [hasResponse |-> TRUE, status |-> 429, detail |-> TextDetail("Rate limit exceeded"),
     message |-> "Request failed with status code 429"],
    [hasResponse |-> TRUE, status |-> 502, detail |-> NoDetail,
     message |-> "Request failed with status code 502"],
    [hasResponse |-> TRUE, status |-> 500, detail |-> TextDetail(""),
     message |-> "Request failed with status code 500"],
    [hasResponse |-> FALSE, status |-> 0, detail |-> NoDetail,
     message |-> "timeout of 0ms exceeded"],
    [hasResponse |-> FALSE, status |-> 0, detail |-> NoDetail, message |-> ""] }

SubmitGateway(q) == Len(subs) < MaxGatewayCalls /\ Submit(q) /\ UNCHANGED uiVars

NextGateway ==
    \/ \E q \in Queries : SubmitGateway(q)
    \/ \E i \in 1..MaxCalls : Tick(i) /\ UNCHANGED uiVars
    \/ \E i \in 1..MaxCalls : Succeed(i, Body) /\ UNCHANGED uiVars
    \/ \E i \in 1..MaxCalls : \E e \in GatewayFailures : Fail(i, e) /\ UNCHANGED uiVars
    \/ \E i \in 1..MaxCalls : HoldExpire(i) /\ UNCHANGED uiVars
    \/ Advance

SpecGateway == Init /\ [][NextGateway]_vars

\* the failure is a 422 whose detail is a list of field errors
IsFieldErrors(e) == e.hasResponse /\ e.status = 422 /\ e.detail.kind = "list"

C13_NoResponseIsNetwork ==
    [][\A i \in 1..MaxCalls : \A e \in GatewayFailures :
          (Fail(i, e) /\ ~e.hasResponse /\ e.message # "") =>
              /\ error'.type = "network"
              /\ error'.message = e.message
              /\ settled'.kind = "rejected"
              /\ JSONparse(settled'.value.message) = error']_vars

\* C13 witness: a transport failure has been applied
C13_Witness ==
    /\ settled.kind = "rejected"
    /\ error.type = "network"
    /\ error.message = "Network Error"

\* C14: a response with an error payload that is not a 422 with a list of field
\* errors (a 422 whose detail is no list included) yields an error of type "api"
\* with the status code and the payload of the response.
C14_OtherResponsesAreApi ==
    [][\A i \in 1..MaxCalls : \A e \in GatewayFailures :
          (Fail(i, e) /\ e.hasResponse /\ detailTruthy(e.detail) /\ ~IsFieldErrors(e)) =>
              /\ error'.type = "api"
              /\ error'.status = e.status
              /\ error'.message = e.detail]_vars

\* C14 witness: a 422 whose detail is a string has been applied as an api error
C14_Witness ==
    /\ settled.kind = "rejected"
    /\ error.type = "api"
    /\ error.status = 422
    /\ error.message = TextDetail("Unprocessable")

----------------------------------------------------------------------------
(* C21 .. C30 *)

\* C21, as claimed: a failure that carries a response is classified as a validation
\* or an api error, never as a network error; the type "network" occurs only when
\* no response was received.
C21_ResponseNeverNetwork ==
    [][\A i \in 1..MaxCalls : \A e \in GatewayFailures :
          Fail(i, e) =>
              /\ e.hasResponse => error'.type \in {"validation", "api"}
              /\ error'.type = "network" => ~e.hasResponse]_vars

\* C23, as claimed: the reset armed by the success of a submission leaves loading,
\* progress and label alone when a later submission is pending at the time it runs.
C23_ResetOnlyOwnSubmission ==
    [][\A i \in 1..MaxCalls :
          (HoldExpire(i) /\ \E j \in InFlight : j > i) =>
              UNCHANGED <<loading, loadingProgress, loadingStage>>]_vars

\* C26, as claimed: validateQuery accepts a query exactly when handleSearch goes on
\* to the request, and for every rejected query that is not the empty string both
\* report the same message.
C26_ValidatorsAgreeNonEmpty ==
    [][handleSearchCall =>
          /\ sectionOutcome[query].isValid <=> posts' = posts + 1
          /\ (~sectionOutcome[query].isValid /\ Len(query) > 0) =>
                /\ hookOutcome[query].message = sectionOutcome[query].message
                /\ error' = validationError(sectionOutcome[query].message)]_vars

\* C26, amended: validateQuery accepts a query exactly when handleSearch goes on to
\* the request, and for every rejected query that is not blank (not empty after
\* trimming) both report the same message; for a blank query validateQuery reports
\* "Query cannot be empty" and handleSearch returns without a message.
C26_ValidatorsAgreeNonBlank ==
    [][handleSearchCall =>
          /\ sectionOutcome[query].isValid <=> posts' = posts + 1
          /\ sectionOutcome[query].isValid <=> hookOutcome[query].pass
          /\ (~sectionOutcome[query].isValid /\ earliestFailing[query] # 1) =>
                /\ hookOutcome[query].message = sectionOutcome[query].message
                /\ error' = validationError(sectionOutcome[query].message)
          /\ earliestFailing[query] = 1 =>
                /\ sectionOutcome[query].message = MsgEmpty
                /\ hookOutcome[query].message = ""
                /\ error' = error]_vars

\* C26 witness: a query with an SQL pattern and many special characters has been
\* rejected by SearchSection, then by the hook, with the same message
C26_Witness ==
    /\ query = QuerySqlSpecial
    /\ settled.kind = "resolved" /\ settled.query = QuerySqlSpecial
    /\ error = validationError(MsgSql)
    /\ exists(toasts, MsgSql, "warning")
    /\ gestures = 3

\* C27: on the timeline of one submission the target does not decrease from one
\* instant to the next, across the stage boundaries and the steps of the cap too,
\* and lies in 5..99; every tick publishes its target, which its guard never has to
\* hold back.
C27_TargetMonotone ==
    [][/\ (AdvanceTimeline /\ subs # <<>>) =>
              target(now - subs[1].startTime) <= target(now' - subs[1].startTime)
       /\ TickOnce =>
              /\ target(Elapsed(1)) \in 5..99
              /\ target(Elapsed(1)) >= loadingProgress
              /\ loadingProgress' = target(Elapsed(1))]_vars

\* C27 witness: a tick just after the boundary between the second and the third stage
C27_Witness ==
    /\ subs # <<>>
    /\ now = 2600
    /\ loadingStage = stages[3].label
    /\ loadingProgress = target(2600)
    /\ loadingProgress >= stages[2].max

\* C22: the toast of the error effect is shown only for the error that is current
\* when the 100 ms have passed: the timeout that runs is the one set for the current
\* error, and every change of the error (replaced by a new one, cleared by typing, by
\* an example or by a new request) cancels the pending timeout and sets one for the
\* new error only, so that at most one is pending and none is pending without an error.
C22_ToastOnlyForCurrentError ==
    /\ [][errorTimeout =>
              /\ error # Null
              /\ \E t \in errorTimer : /\ t.message = toastMessage(error)
                                       /\ t.type = toastType(error)]_vars
    /\ [][error' # error => errorTimer' = errorEffect(error')]_vars
    /\ [](error = Null => errorTimer = NoTimer)
    /\ [](Cardinality(errorTimer) <= 1)

\* a request has failed and the error was cleared before its toast was shown
C22_Witness ==
    /\ posts = 1
    /\ settled.kind = "rejected"
    /\ InFlight = {}
    /\ error = Null
    /\ errorTimer = NoTimer
    /\ toastSeq = 0

\* C25: with SearchSection as the only caller, a request is issued only by a click
\* or Enter on a query validateQuery accepts, and only while loading is false, no
\* request is pending and no 700 ms reset is outstanding; loading is true as long as
\* a request is pending or a reset is outstanding, and at most one request is pending.
C25_NoOverlappingSubmissions ==
    /\ [][posts' # posts =>
              /\ SubmitGesture
              /\ sectionOutcome[query].isValid
              /\ ~loading
              /\ InFlight = {}
              /\ ~HoldOutstanding]_vars
    /\ []((InFlight # {} \/ HoldOutstanding) => loading)
    /\ [](Cardinality(InFlight) <= 1)
    /\ [](LiveIntervals \subseteq InFlight)

\* a second request is pending after the first one succeeded and was reset
C25_Witness ==
    /\ Len(subs) = 2
    /\ subs[1].pc = "returned"
    /\ subs[1].hold = "fired"
    /\ subs[2].pc = "await"
    /\ loading

\* C28: results changes only in the step in which a request succeeds with a truthy
\* body, and becomes that body; a rejected submit gesture and a failed request leave
\* it unchanged, as does a success with an empty body.
C28_ResultsChangeOnlyOnSuccess ==
    /\ [][results' # results =>
              \E i \in 1..MaxCalls : \E data \in Bodies :
                  /\ Succeed(i, data)
                  /\ truthy(data)
                  /\ results' = data]_vars
    /\ [][(SubmitGesture /\ ~(sectionOutcome[query].isValid /\ hookOutcome[query].pass))
              => results' = results]_vars
    /\ [][(\E i \in 1..MaxCalls : \E e \in AxiosFailures : Fail(i, e))
              => results' = results]_vars

\* the results of the first request are displayed after the second one has failed
C28_Witness ==
    /\ results = Body
    /\ Len(subs) = 2
    /\ subs[2].pc = "thrown"
    /\ error # Null

\* the toasts displayed with message m
ToastsOf(m) == {k \in DOMAIN toasts : toasts[k].message = m}

\* C30: at most one toast is displayed for a client validation message, and the
\* timeout of the error effect that follows a rejected click or Enter adds nothing
\* while the toast of the gesture is displayed.
C30_OneToastPerRejectedSubmit ==
    /\ [](\A m \in ClientMessages : Cardinality(ToastsOf(m)) <= 1)
    /\ [][(errorTimeout /\ error.type = "validation" /\ ToastsOf(error.message) # {})
              => toasts' = toasts]_vars

\* Enter on a query that is too short, 100 ms later
C30_Witness ==
    /\ query = QueryShort
    /\ now = EffectDelay
    /\ error = validationError(MsgShort)
    /\ errorTimer = NoTimer
    /\ Cardinality(ToastsOf(MsgShort)) = 1
    /\ toasts[1].type = "warning"

----------------------------------------------------------------------------
(* The toasts when every timeout that is due runs *)

\* the application in which every timeout that is due runs and time passes; the
\* gestures, close clicks included, are not required to happen
SpecToasts ==
    /\ Init
    /\ [][NextUI]_vars
    /\ WF_vars(errorTimeout)
    /\ WF_vars(\E t \in removalTimers : removalTimeout(t))
    /\ WF_vars(\E t \in autoCloseTimers : autoClose(t))
    /\ WF_vars(\E t \in exitTimers : exitTimeout(t))
    /\ WF_vars(AdvanceToTimer)

\* the ids addToast can have issued: a toast follows a gesture
ToastIds == 1..MaxGestures

\* toast id is in the list with a positive duration
Timed(id) == \E k \in DOMAIN toasts : toasts[k].id = id /\ toasts[k].duration > 0

\* C29: a toast added with duration > 0 eventually leaves the list whether or not
\* it is closed by hand, and a removal (timeout of the container, exit timeout of
\* handleClose after the auto-close or a click) of an id that is not in the list
\* leaves the list as it is.
C29_ToastEventuallyRemoved ==
    /\ \A id \in ToastIds : Timed(id) ~> ~Displayed(toasts, id)
    /\ [][\A t \in removalTimers \cup exitTimers :
              ((removalTimeout(t) \/ exitTimeout(t)) /\ ~Displayed(toasts, t.id))
                  => toasts' = toasts]_vars
    /\ [](toastSeq \in {0} \cup ToastIds)

\* the toast of a rejected Enter is gone, and its exit timeout has run after the
\* timeout of the container had removed it
C29_Witness ==
    /\ toastSeq = 1
    /\ toasts = <<>>
    /\ removalTimers = {}
    /\ autoCloseTimers = {}
    /\ exitTimers = {}
    /\ now = SubmitToastDuration + ExitDelay

----------------------------------------------------------------------------
(* The hook when every request is answered and every timer runs *)

\* handleSearch(q) by any caller
SubmitAny(q) == Submit(q) /\ UNCHANGED uiVars

\* the interval callback of subs[i]
TickLive(i) == Tick(i) /\ UNCHANGED uiVars

\* the request of subs[i] is answered, with a 2xx or with a failure
Resolve(i) ==
    /\ Succeed(i, Body) \/ \E e \in AxiosFailures : Fail(i, e)
    /\ UNCHANGED uiVars

\* the reset armed by the success of subs[i]
HoldExpireLive(i) == HoldExpire(i) /\ UNCHANGED uiVars

NextLive ==
    \/ \E q \in {QueryOk, QueryShort} : SubmitAny(q)
    \/ \E i \in 1..MaxCalls : TickLive(i)
    \/ \E i \in 1..MaxCalls : Resolve(i)
    \/ \E i \in 1..MaxCalls : HoldExpireLive(i)
    \/ AdvanceToTimer

\* every request is answered, every timeout and interval callback that is due runs,
\* time passes; submit() is called finitely often
SpecLive ==
    /\ Init
    /\ [][NextLive]_vars
    /\ \A i \in 1..MaxCalls :
          WF_vars(Resolve(i)) /\ WF_vars(TickLive(i)) /\ WF_vars(HoldExpireLive(i))
    /\ WF_vars(AdvanceToTimer)

\* the idle display state
IdleDisplay == loading = FALSE /\ loadingProgress = 0 /\ loadingStage = ""

\* C24, as claimed: when every request is answered and submit() is no longer
\* called, the hook reaches the idle display state loading = false, progress 0,
\* label empty, and stays in it.
C24_EventuallyIdleForever == <>[]IdleDisplay

====
